---- MODULE Spec2Model ----
(***************************************************************************)
(* RuleCollector.collect (src/retrieval/collector.py): candidates of       *)
(* several retrieval rules are filtered, normalised to                     *)
(* (customer_id, article_id, score, method), concatenated and optionally   *)
(* compressed to one item list per target customer.                        *)
(*                                                                         *)
(* Tables are sequences of records.  A missing value (NaN / None) is 0 in  *)
(* the columns customer_id, cat, article_id and score, and "nan" in the    *)
(* column method.  `cat` stands for the tuple of the cat_cols values.      *)
(***************************************************************************)
EXTENDS Integers, Sequences, FiniteSets, TLC

VARIABLES customer_list, rules, filters, compress,
          pc, idx, rm_items, pred_df, tmp_dfs, calls, output, raised

vars == <<customer_list, rules, filters, compress,
          pc, idx, rm_items, pred_df, tmp_dfs, calls, output, raised>>

\* ------------------------------------------------------------ bounds
MaxUsers == 2
MaxRules == 2
MaxRows == 2

\* ------------------------------------------------------------ values
NaN == 0
None == "None"
\* an argument or local that is either None or a table / list
NoneVal == [isnone |-> TRUE, rows |-> <<>>]
Some(rows) == [isnone |-> FALSE, rows |-> rows]
Customers == {1, 2, 3}
Items == {1, 2, 3}

Range(s) == {s[k] : k \in DOMAIN s}

RECURSIVE SeqsUpTo(_, _)
SeqsUpTo(S, n) ==
    IF n = 0 THEN {<<>>}
    ELSE LET shorter == SeqsUpTo(S, n - 1)
         IN  shorter \cup {Append(s, x) : s \in {t \in shorter : Len(t) = n - 1}, x \in S}

\* the elements of a set of numbers in increasing order
RECURSIVE SortedSeq(_)
SortedSeq(S) ==
    IF S = {} THEN <<>>
    ELSE LET m == CHOOSE x \in S : \A y \in S : x <= y
         IN  <<m>> \o SortedSeq(S \ {m})

RECURSIVE Flatten(_)
Flatten(ss) == IF ss = <<>> THEN <<>> ELSE Head(ss) \o Flatten(Tail(ss))

\* ------------------------------------------------------------ inputs
\* data["user"]: keyed by customer_id; customer 3 has no row in it.
UserTable ==
    << [customer_id |-> 1, cat |-> 1],
       [customer_id |-> 2, cat |-> 2] >>

Row(c, g, i, s, m) ==
    [customer_id |-> c, cat |-> g, article_id |-> i, score |-> s, method |-> m]

PersonalRule(raw) == [kind |-> "Personal", raw |-> raw]
GlobalRule(raw) == [kind |-> "Global", raw |-> raw]
UserGroupRule(raw) == [kind |-> "UserGroup", raw |-> raw]
OtherObject == [kind |-> "Other", raw |-> <<>>]

\* The rule objects a caller may pass (what each rule's retrieve() returns).
RulePool ==
    { PersonalRule(<< Row(1, NaN, 1, 5, "P"), Row(2, NaN, 2, 4, "P"), Row(1, NaN, 1, 3, "P") >>),
      PersonalRule(<< Row(3, NaN, 3, 2, "P"), Row(1, NaN, 2, 1, "P") >>),
      GlobalRule(<< Row(NaN, NaN, 1, 9, "G"), Row(NaN, NaN, 2, 8, "G"), Row(NaN, NaN, 3, 7, "G") >>),
      UserGroupRule(<< Row(NaN, 1, 1, 7, "UG"), Row(NaN, 2, 2, 6, "UG"), Row(NaN, 1, 3, 5, "UG") >>),
      UserGroupRule(<< Row(NaN, 1, 2, 4, "UG") >>),
      OtherObject }

\* Every table of at most MaxRows rows a rule of each kind may return.
PersonalRows == {Row(c, NaN, i, 10 * c + i, "P") : c \in {1, 3}, i \in {1, 2}}
GlobalRows == {Row(NaN, NaN, i, i, "G") : i \in Items}
UserGroupRows == {Row(NaN, g, i, 10 * g + i, "UG") : g \in {1, 2}, i \in {1, 2}}

RuleTables ==
    {PersonalRule(t) : t \in SeqsUpTo(PersonalRows, MaxRows)}
        \cup {GlobalRule(t) : t \in SeqsUpTo(GlobalRows, MaxRows)}
        \cup {UserGroupRule(t) : t \in SeqsUpTo(UserGroupRows, MaxRows)}

\* The values of the `rules` argument: the lists over RulePool, and every
\* one-rule list over RuleTables.
RuleLists == SeqsUpTo(RulePool, MaxRules) \cup {<<r>> : r \in RuleTables}

FilterRule(ids) == [kind |-> "Filter", ids |-> ids]
NotAFilter == [kind |-> "Other", ids |-> <<>>]

\* The values of the `filters` argument (what each filter's retrieve() returns).
FilterLists ==
    { NoneVal,
      Some(<<>>),
      Some(<< FilterRule(<<1>>) >>),
      Some(<< FilterRule(<<1>>), FilterRule(<<2, 1>>) >>),
      Some(<< FilterRule(<<1>>), NotAFilter >>) }

\* ------------------------------------------------------------ checks
_check_rule(rs) ==
    \E k \in DOMAIN rs : rs[k].kind \notin {"Personal", "Global", "UserGroup"}

\* variant: the filters are not checked
_check_filter_skipped(fs) == FALSE

_check_filter(fs) ==
    \E k \in DOMAIN fs : fs[k].kind # "Filter"

\* ------------------------------------------------------------ pandas / numpy
\* variant: the mask is not negated
isin_keep(items, rm) == SelectSeq(items, LAMBDA r : r.article_id \in Range(rm))

\* items.loc[~items[item_id].isin(rm_items)].reset_index(drop=True)
isin_drop(items, rm) == SelectSeq(items, LAMBDA r : r.article_id \notin Range(rm))

\* np.repeat(a, n): every element n times, in place
np_repeat(a, n) == [j \in 1..(Len(a) * n) |-> a[((j - 1) \div n) + 1]]

\* variant: the row numbers are repeated in place like the customers
np_tile_in_place(k, n) == [j \in 1..(k * n) |-> ((j - 1) \div n) + 1]

\* np.tile(np.arange(k), n): 0..k-1 written n times (1-based here)
np_tile(k, n) == [j \in 1..(k * n) |-> ((j - 1) % k) + 1]

Normal(c, r) ==
    [customer_id |-> c, article_id |-> r.article_id, score |-> r.score, method |-> r.method]

GlobalBranch(items, users) ==
    LET num_item == Len(items)
        num_user == Len(users)
        tmp_user == np_repeat(users, num_item)
        take == np_tile(num_item, num_user)
    IN  [j \in 1..Len(take) |-> Normal(tmp_user[j], items[take[j]])]

\* variant: the rows are restricted to the target customers
PersonalBranch_targets(items, users) ==
    LET mine == SelectSeq(items, LAMBDA r : r.customer_id \in Range(users))
    IN  [j \in 1..Len(mine) |-> Normal(mine[j].customer_id, mine[j])]

PersonalBranch(items, users) ==
    [j \in 1..Len(items) |-> Normal(items[j].customer_id, items[j])]

\* left.merge(right, on=on, how="left"): left order kept, the matches of one
\* left row in right order, and one row with the columns of `right` missing
\* (the record `missing`) when there is no match.
merge_left(left, right, on, missing) ==
    Flatten([k \in 1..Len(left) |->
        LET l == left[k]
            hits == SelectSeq(right, LAMBDA r : r[on] = l[on])
        IN  IF hits = <<>> THEN << l @@ missing >>
            ELSE [j \in 1..Len(hits) |-> l @@ hits[j]]])

UserGroupBranch(items, users) ==
    LET tmp0 == [j \in 1..Len(users) |-> [customer_id |-> users[j]]]
        tmp1 == merge_left(tmp0, UserTable, "customer_id", [cat |-> NaN])
        tmp2 == merge_left(tmp1, items, "cat",
                           [article_id |-> NaN, score |-> NaN, method |-> "nan"])
    IN  [j \in 1..Len(tmp2) |-> Normal(tmp2[j].customer_id, tmp2[j])]

\* variant: the new table is put in front
pd_concat_front(df, tmp) == IF df.isnone THEN Some(tmp) ELSE Some(tmp \o df.rows)

\* variant: drop_duplicates(["customer_id", item_id], keep="first") after it
pd_concat_dedup(df, tmp) ==
    LET all == IF df.isnone THEN tmp ELSE df.rows \o tmp
        first(k) == \A h \in 1..(k - 1) :
                        \/ all[h].customer_id # all[k].customer_id
                        \/ all[h].article_id # all[k].article_id
        keep == {k \in DOMAIN all : first(k)}
        pos == SortedSeq(keep)
    IN  Some([k \in 1..Len(pos) |-> all[pos[k]]])

\* pd.concat([pred_df, tmp_df], ignore_index=True); a None entry is skipped
pd_concat(df, tmp) == IF df.isnone THEN Some(tmp) ELSE Some(df.rows \o tmp)

\* pred_df.groupby("customer_id")[item_id].apply(list).reset_index()
\* (isna: the cell of the list column is missing)
groupby_list(df) ==
    \* the keys are sorted and a missing key is dropped
    LET keys == SortedSeq({df[j].customer_id : j \in DOMAIN df} \ {NaN})
    IN  [g \in 1..Len(keys) |->
            LET grp == SelectSeq(df, LAMBDA r : r.customer_id = keys[g])
            IN  [customer_id |-> keys[g],
                 article_id |-> [j \in 1..Len(grp) |-> grp[j].article_id],
                 isna |-> FALSE]]

\* pd.merge(output_df, pred_df, on=["customer_id"], how="left"), then the
\* missing cells are imputed with the empty list.
CompressDf(df, users) ==
    LET grouped == groupby_list(df)
        output_df == [j \in 1..Len(users) |-> [customer_id |-> users[j]]]
        merged == merge_left(output_df, grouped, "customer_id",
                             [article_id |-> <<>>, isna |-> TRUE])
    IN  [j \in 1..Len(merged) |->
            IF merged[j].isna
            THEN [merged[j] EXCEPT !.article_id = <<>>, !.isna = FALSE]
            ELSE merged[j]]

\* ------------------------------------------------------------ collect()
Init ==
    /\ customer_list \in SeqsUpTo(Customers, MaxUsers)
    /\ rules \in RuleLists
    /\ filters \in FilterLists
    /\ compress \in BOOLEAN
    /\ pc = "check_rule"
    /\ idx = 1
    /\ rm_items = <<>>
    /\ pred_df = NoneVal
    /\ tmp_dfs = <<>>
    /\ calls = <<>>
    /\ output = NoneVal
    /\ raised = None

Inputs == <<customer_list, rules, compress>>

CheckRule ==
    /\ pc = "check_rule"
    /\ IF _check_rule(rules)
       THEN pc' = "raised" /\ raised' = "TypeError"
       ELSE pc' = "check_filter" /\ raised' = raised
    /\ UNCHANGED <<Inputs, filters, idx, rm_items, pred_df, tmp_dfs, calls, output>>

CheckFilter ==
    /\ pc = "check_filter"
    /\ IF filters.isnone
       THEN filters' = Some(<<>>) /\ pc' = "filters" /\ raised' = raised
       ELSE /\ filters' = filters
            /\ IF _check_filter(filters.rows)
               THEN pc' = "raised" /\ raised' = "TypeError"
               ELSE pc' = "filters" /\ raised' = raised
    /\ UNCHANGED <<Inputs, idx, rm_items, pred_df, tmp_dfs, calls, output>>

RetrieveFilter ==
    /\ pc = "filters"
    /\ idx <= Len(filters.rows)
    /\ calls' = Append(calls, <<"filter", idx>>)
    /\ rm_items' = rm_items \o filters.rows[idx].ids
    /\ idx' = idx + 1
    /\ UNCHANGED <<Inputs, filters, pc, pred_df, tmp_dfs, output, raised>>

FiltersDone ==
    /\ pc = "filters"
    /\ idx > Len(filters.rows)
    /\ pc' = "rules"
    /\ idx' = 1
    /\ UNCHANGED <<Inputs, filters, rm_items, pred_df, tmp_dfs, calls, output, raised>>

Branch(rule, items, users) ==
    CASE rule.kind = "Global" -> GlobalBranch(items, users)
      [] rule.kind = "Personal" -> PersonalBranch(items, users)
      [] rule.kind = "UserGroup" -> UserGroupBranch(items, users)

\* variant: retrieve() is called a second time on the rule
RetrieveRule_twice ==
    /\ pc = "rules"
    /\ idx <= Len(rules)
    /\ calls' = calls \o << <<"rule", idx>>, <<"rule", idx>> >>
    /\ LET items == isin_drop(rules[idx].raw, rm_items)
           tmp_df == Branch(rules[idx], items, customer_list)
       IN  /\ tmp_dfs' = Append(tmp_dfs, tmp_df)
           /\ pred_df' = pd_concat(pred_df, tmp_df)
    /\ idx' = idx + 1
    /\ UNCHANGED <<Inputs, filters, pc, rm_items, output, raised>>

RetrieveRule ==
    /\ pc = "rules"
    /\ idx <= Len(rules)
    /\ calls' = Append(calls, <<"rule", idx>>)
    /\ LET items == isin_drop(rules[idx].raw, rm_items)
           tmp_df == Branch(rules[idx], items, customer_list)
       IN  /\ tmp_dfs' = Append(tmp_dfs, tmp_df)
           /\ pred_df' = pd_concat(pred_df, tmp_df)
    /\ idx' = idx + 1
    /\ UNCHANGED <<Inputs, filters, pc, rm_items, output, raised>>

RulesDone ==
    /\ pc = "rules"
    /\ idx > Len(rules)
    /\ pc' = "return"
    /\ UNCHANGED <<Inputs, filters, idx, rm_items, pred_df, tmp_dfs, calls, output, raised>>

\* compress=True: None.groupby raises AttributeError when no rule ran
ReturnCompressed ==
    /\ pc = "return"
    /\ compress
    /\ IF pred_df.isnone
       THEN pc' = "raised" /\ raised' = "AttributeError" /\ output' = output
       ELSE /\ pc' = "done"
            /\ raised' = raised
            /\ output' = Some(CompressDf(pred_df.rows, customer_list))
    /\ UNCHANGED <<Inputs, filters, idx, rm_items, pred_df, tmp_dfs, calls>>

ReturnFlat ==
    /\ pc = "return"
    /\ ~compress
    /\ pc' = "done"
    /\ output' = pred_df
    /\ UNCHANGED <<Inputs, filters, idx, rm_items, pred_df, tmp_dfs, calls, raised>>

Next ==
    \/ CheckRule
    \/ CheckFilter
    \/ RetrieveFilter
    \/ FiltersDone
    \/ RetrieveRule
    \/ RulesDone
    \/ ReturnCompressed
    \/ ReturnFlat

Spec == Init /\ [][Next]_vars

\* ------------------------------------------------------------ properties
\* The arguments as the caller passed them.
FiltersArg == IF filters.isnone THEN <<>> ELSE filters.rows

ValidRules == \A k \in DOMAIN rules : rules[k].kind \in {"Personal", "Global", "UserGroup"}
ValidFilters == \A k \in DOMAIN FiltersArg : FiltersArg[k].kind = "Filter"

ExclusionSet == UNION {Range(FiltersArg[k].ids) : k \in DOMAIN FiltersArg}

RECURSIVE SumSeq(_)
SumSeq(s) == IF s = <<>> THEN 0 ELSE Head(s) + SumSeq(Tail(s))

\* how often x is in the sequence s
Count(s, x) == Cardinality({k \in DOMAIN s : s[k] = x})

\* the (customer_id, article_id) pairs of the rows of a table
Pairs(df) == [k \in 1..Len(df) |-> <<df[k].customer_id, df[k].article_id>>]

\* the cohort of customer u in the user table; missing when u has no row
CatOf(u) ==
    IF \E k \in DOMAIN UserTable : UserTable[k].customer_id = u
    THEN UserTable[CHOOSE k \in DOMAIN UserTable : UserTable[k].customer_id = u].cat
    ELSE NaN

\* the rows of rule j whose item is not excluded
Kept(j) == SelectSeq(rules[j].raw, LAMBDA r : r.article_id \notin ExclusionSet)

\* rule j proposes the row r of its table to customer u
Proposes(j, r, u) ==
    CASE rules[j].kind = "Personal" -> r.customer_id = u
      [] rules[j].kind = "Global" -> TRUE
      [] rules[j].kind = "UserGroup" -> CatOf(u) # NaN /\ r.cat = CatOf(u)

NoCandidate(u) ==
    \A j \in DOMAIN rules : \A k \in DOMAIN Kept(j) : ~Proposes(j, Kept(j)[k], u)

Finished == pc \in {"done", "raised"}
Compressed == pc = "done" /\ compress
Flat == pc = "done" /\ ~compress /\ ~output.isnone

\* C1: with valid rules and filters and compress=True, collect returns one row
\* per entry of the target list, customer_id equal to the list, in its order.
C1_Coverage ==
    (Finished /\ compress /\ ValidRules /\ ValidFilters) =>
        /\ pc = "done"
        /\ ~output.isnone
        /\ [k \in DOMAIN output.rows |-> output.rows[k].customer_id] = customer_list

\* C2: in the compressed output a target user no rule has a candidate for has
\* the empty sequence: not missing, length 0.
C2_EmptyDefault ==
    Compressed =>
        \A k \in DOMAIN output.rows :
            NoCandidate(output.rows[k].customer_id) =>
                ~output.rows[k].isna /\ output.rows[k].article_id = <<>>

\* C3: the exclusion set is the union of the filters' item ids (empty without
\* filters) and no row of the output, flat or compressed, holds one of them.
C3_Exclusion ==
    /\ pc \in {"rules", "return", "done"} => Range(rm_items) = ExclusionSet
    /\ (pc = "done" /\ ~output.isnone) =>
          \A k \in DOMAIN output.rows :
              IF compress
              THEN Range(output.rows[k].article_id) \cap ExclusionSet = {}
              ELSE output.rows[k].article_id \notin ExclusionSet

C3_Witness ==
    /\ pc = "done"
    /\ Len(FiltersArg) = 2
    /\ \E j \in DOMAIN rules : Len(Kept(j)) < Len(rules[j].raw)
    /\ output.rows # <<>>

\* C4: a rule that is none of the three kinds, or a filter that is no filter,
\* makes collect raise TypeError before any retrieve() and without output.
C4_TypeCheckFirst ==
    ~(ValidRules /\ ValidFilters) =>
        /\ calls = <<>>
        /\ pred_df.isnone /\ output.isnone /\ tmp_dfs = <<>> /\ rm_items = <<>>
        /\ pc \in {"check_rule", "check_filter", "raised"}
        /\ pc = "raised" => raised = "TypeError"

C4_Witness ==
    /\ pc = "raised" /\ raised = "TypeError"
    /\ ValidRules
    /\ Len(FiltersArg) = 2 /\ FiltersArg[1].kind = "Filter" /\ FiltersArg[2].kind # "Filter"
    /\ rules # <<>>

\* the items of customer u's rows of table df, in row order
ItemsFor(u, df) ==
    LET mine == SelectSeq(df, LAMBDA r : r.customer_id = u)
    IN  [k \in 1..Len(mine) |-> mine[k].article_id]

\* C5: a target user's compressed sequence is the items of the user's rows of
\* rule 1's table in row order, then those of rule 2's, and so on.
C5_Order ==
    Compressed =>
        \A k \in DOMAIN customer_list :
            output.rows[k].article_id =
                Flatten([j \in 1..Len(tmp_dfs) |-> ItemsFor(customer_list[k], tmp_dfs[j])])

C5_Witness ==
    /\ Compressed
    /\ Len(rules) = 2
    /\ \E k \in DOMAIN output.rows :
          /\ output.rows[k].article_id = <<1, 1, 2>>
          /\ ItemsFor(customer_list[k], tmp_dfs[1]) = <<1, 1>>
          /\ ItemsFor(customer_list[k], tmp_dfs[2]) = <<2>>

\* how often rule j proposes the non-excluded item i to customer u
Proposed(j, u, i) ==
    Cardinality({k \in DOMAIN Kept(j) :
                    Kept(j)[k].article_id = i /\ Proposes(j, Kept(j)[k], u)})

\* how many normalized rows rule j produces for the pair (u, i): a Personal
\* rule its own rows, the others one copy per entry of u in the target list
Added(j, u, i) ==
    IF rules[j].kind = "Personal" THEN Proposed(j, u, i)
    ELSE Proposed(j, u, i) * Count(customer_list, u)

\* C6: nothing is deduplicated: a pair (customer, item) is in the flat output,
\* and the item in the customer's compressed sequence, once per proposal.
C6_NoDedup ==
    /\ Flat =>
          \A u \in Customers, i \in Items :
              Count(Pairs(output.rows), <<u, i>>)
                  = SumSeq([j \in 1..Len(rules) |-> Added(j, u, i)])
    /\ Compressed =>
          \A k \in DOMAIN output.rows, i \in Items :
              Count(output.rows[k].article_id, i)
                  = SumSeq([j \in 1..Len(rules) |-> Added(j, customer_list[k], i)])

C6_Witness ==
    /\ pc = "done"
    /\ Len(rules) = 2
    /\ \E k \in DOMAIN customer_list :
          /\ Proposed(1, customer_list[k], 1) >= 1
          /\ Proposed(2, customer_list[k], 1) >= 1
          /\ compress => Count(output.rows[k].article_id, 1) >= 2

\* C7 as stated: the contribution of a Global rule has k x n rows, k the number
\* of rows its retrieve() returned.
C7_BeforeFiltering ==
    \A j \in DOMAIN tmp_dfs :
        rules[j].kind = "Global" =>
            Len(tmp_dfs[j]) = Len(rules[j].raw) * Len(customer_list)

\* C7 amended: the contribution of a Global rule has k' x n rows, k' the number
\* of its rows that are not excluded; every entry of the target list is paired
\* with every such row once, with the row's item, score and method.
C7_Broadcast ==
    \A j \in DOMAIN tmp_dfs :
        rules[j].kind = "Global" =>
            LET k == Len(Kept(j))
                n == Len(customer_list)
            IN  /\ Len(tmp_dfs[j]) = k * n
                /\ \A a \in 1..n, b \in 1..k :
                      tmp_dfs[j][(a - 1) * k + b] =
                          [customer_id |-> customer_list[a],
                           article_id |-> Kept(j)[b].article_id,
                           score |-> Kept(j)[b].score,
                           method |-> Kept(j)[b].method]

C7_Witness ==
    \E j \in DOMAIN tmp_dfs :
        /\ rules[j].kind = "Global"
        /\ Len(Kept(j)) = 2 /\ Kept(j)[1] # Kept(j)[2]
        /\ Len(rules[j].raw) > 2
        /\ Len(customer_list) = 2 /\ customer_list[1] # customer_list[2]

\* C8 (a): a UserGroup rule gives every target user the non-excluded rows of
\* the user's cohort and no other item.
C8_JoinRows ==
    \A j \in DOMAIN tmp_dfs :
        rules[j].kind = "UserGroup" =>
            \A u \in Range(customer_list), i \in Items :
                Count(Pairs(tmp_dfs[j]), <<u, i>>)
                    = Added(j, u, i)

\* C8: (a), and the missing item of an unmatched user is dropped at compression:
\* it is in no compressed sequence.
C8_UserGroupJoin ==
    /\ C8_JoinRows
    /\ Compressed =>
          \A k \in DOMAIN output.rows : NaN \notin Range(output.rows[k].article_id)

\* the rows of the tables 1..j-1
Offset(j) == SumSeq([k \in 1..(j - 1) |-> Len(tmp_dfs[k])])

\* C9: the non-excluded rows of a Personal rule are in the flat output as they
\* were returned: same customer_id, item, score, method and order, none added.
C9_PersonalPassthrough ==
    Flat =>
        /\ Len(output.rows) = Offset(Len(rules) + 1)
        /\ \A j \in DOMAIN rules :
              rules[j].kind = "Personal" =>
                  SubSeq(output.rows, Offset(j) + 1, Offset(j + 1)) =
                      [k \in 1..Len(Kept(j)) |->
                          [customer_id |-> Kept(j)[k].customer_id,
                           article_id |-> Kept(j)[k].article_id,
                           score |-> Kept(j)[k].score,
                           method |-> Kept(j)[k].method]]

C9_Witness ==
    /\ Flat
    /\ \E j \in DOMAIN rules :
          /\ rules[j].kind = "Personal"
          /\ j > 1
          /\ Len(Kept(j)) < Len(rules[j].raw)
          /\ \E k \in DOMAIN Kept(j) : Kept(j)[k].customer_id \notin Range(customer_list)

ExpectedCalls ==
    [k \in 1..Len(FiltersArg) |-> <<"filter", k>>]
        \o [k \in 1..Len(rules) |-> <<"rule", k>>]

\* C10: in a run that passes the checks retrieve() is called once on every
\* filter and then once on every rule, in list order, and every rule is
\* evaluated with the exclusion list of all filters.
C10_CallOrder ==
    (ValidRules /\ ValidFilters) =>
        /\ Len(calls) <= Len(ExpectedCalls)
        /\ calls = SubSeq(ExpectedCalls, 1, Len(calls))
        /\ pc \in {"return", "done"} => calls = ExpectedCalls
        /\ (\E k \in DOMAIN calls : calls[k][1] = "rule") => Range(rm_items) = ExclusionSet

C10_Witness ==
    /\ pc = "done"
    /\ Len(FiltersArg) = 2
    /\ Len(rules) = 2
    /\ Len(calls) = 4

====
